---------------------------- MODULE Spec2Model ----------------------------
(***************************************************************************)
(* Model of scion-apps: the path ACL of pkg/pan (FilterPacket and the ACL  *)
(* loaders), the SCION address mangling of pkg/shttp, and the echo prober  *)
(* of pkg/pan/internal/ping.                                               *)
(*                                                                         *)
(* Three state machines share the module; each specification moves the     *)
(* variables of one of them and leaves the others at their initial values. *)
(*   ACLSpec  - loading an ACL and filtering inbound packets               *)
(*   URLSpec  - mangling a URL, parsing it, dialing, resolving             *)
(*   Spec     - one Pinger: Send, Drain, the SCMP handler, Close           *)
(*   FairSpec - Spec with the fairness of the Go scheduler                 *)
(***************************************************************************)
EXTENDS Integers, Sequences, FiniteSets, TLC

VARIABLES
    \* ---- ACL / packet filter
    aclPhase,      \* "init" | "serving" | "exited"
    aclSetup,      \* who built the connection: "none" | "test" | "forwarder"
    aclSource,     \* the file path handed to the loader
    allowedPaths,  \* the ACL value held by the connection
    lastPkt,       \* the last packet handed to FilterPacket, or NoPkt
    lastVerdict,   \* what FilterPacket answered for it
    nFiltered,     \* packets filtered so far
    \* ---- URL mangling and dialing
    urlPhase,      \* "idle" | "built" | "mangled" | "parsed" | "done"
    hostPort,      \* the host text form put into the URL
    rawURL,        \* the URL built around it
    mangledURL,    \* MangleSCIONAddrURL(rawURL)
    parsed,        \* url.Parse(mangledURL)
    unmangled,     \* UnmangleSCIONAddr(u.Host)
    dialAddr,      \* the address the transport hands to its dial function
    dialed,        \* what the dial function resolved it to
    resolverCalls, \* the names the resolver was asked for
    \* ---- the Pinger
    id,            \* Pinger.id, the random 64-bit identifier
    errHandler,    \* whether Pinger.errHandler is set (non-nil)
    closed,        \* whether the packet endpoint (Pinger.conn) is closed
    closeRet,      \* what the calls of Close returned, in order
    ctxDone,       \* whether the context handed to Drain is cancelled
    drainPc,       \* where Drain is: "idle" | "select" | "read" | "deliver" | "done"
    pending,       \* the Reply the handler is about to put on the channel
    replies,       \* the reply channel's buffer
    handled,       \* the packets handed to the SCMP handler so far, in order
    nConsumed,     \* replies the consumer has taken off the channel
    consumed,      \* the Replies the consumer has received, in order
    readErrs,      \* failed reads seen by Drain (counted up to MaxReadErrs)
    last,          \* Drain's local "last": the time of the last error report
    hookCalls,     \* the times at which errHandler was invoked, in order
    now,           \* the clock, in ticks
    pld,           \* Pinger.pld, the payload buffer
    written,       \* the packets written to the endpoint, with their next hop
    sendRet,       \* the calls of Send, in order: arguments and returned error
    \* ---- one probe and its reply, timed in nanoseconds
    rttPhase,      \* "idle" | "sent" | "replied" | "measured"
    rttSent,       \* the time Send stamped into the payload
    rttDelay,      \* how long after it the reply was received
    rttReply,      \* the Reply built for the echo
    rttResult,     \* what Reply.RTT() returned for it
    \* ---- the forwarder
    fwdPc,         \* forwardTLS: "start" | "listen" | "accepting" | "returned" | "panicked"
    fwdRet,        \* the error forwardTLS returned, or "none"
    sessions,      \* per session: its goroutine, log lines, connections, copies
    \* ---- forwarding paths and their fingerprints
    fpPath,        \* per path object: the decoded path it was built from
    fpCached,      \* per path object: the fingerprint it holds, once computed
    fpCalls,       \* the calls of Fingerprint, in order: object and result
    \* ---- calls of Send that overlap in time, on the one Pinger
    senders,       \* per calling goroutine: where its Send is, and its locals
    wire           \* the packets those calls wrote, with the call's size and time

varsACL == <<aclPhase, aclSetup, aclSource, allowedPaths, lastPkt, lastVerdict, nFiltered>>

varsURL == <<urlPhase, hostPort, rawURL, mangledURL, parsed, unmangled, dialAddr, dialed,
             resolverCalls>>

\* The Pinger: what Drain and the handler move, what Send moves, and what
\* both read.
varsConn == <<id, errHandler, closed, closeRet, now>>
varsDrain == <<ctxDone, drainPc, pending, replies, handled, nConsumed, consumed, readErrs, last,
               hookCalls>>
varsSend == <<pld, written, sendRet>>
varsPing == <<varsConn, varsDrain, varsSend>>

varsRTT == <<rttPhase, rttSent, rttDelay, rttReply, rttResult>>

varsFwd == <<fwdPc, fwdRet, sessions>>

varsFp == <<fpPath, fpCached, fpCalls>>

varsRace == <<senders, wire>>

\* What the actions of one state machine leave alone: the other machines.
notACL == <<varsURL, varsPing, varsRTT, varsFwd, varsFp, varsRace>>
notURL == <<varsACL, varsPing, varsRTT, varsFwd, varsFp, varsRace>>
notPing == <<varsACL, varsURL, varsRTT, varsFwd, varsFp, varsRace>>
notRTT == <<varsACL, varsURL, varsPing, varsFwd, varsFp, varsRace>>
notFwd == <<varsACL, varsURL, varsPing, varsRTT, varsFp, varsRace>>
notFp == <<varsACL, varsURL, varsPing, varsRTT, varsFwd, varsRace>>
\* The overlapping calls of Send move the payload buffer of the Pinger too.
notRace == <<varsACL, varsURL, varsRTT, varsFwd, varsFp,
             varsConn, varsDrain, written, sendRet>>

(***************************************************************************)
(*                      ACL loading and FilterPacket                       *)
(***************************************************************************)

\* Source domains (ISD-AS) of inbound packets.
DomainA == "1-ff00:0:112"
DomainB == "1-ff00:0:110"
DomainC == "2-ff00:0:220"
Domains == {DomainA, DomainB, DomainC}

\* Path fingerprints.
Fingerprints == {"fp1", "fp2", "fp3", "fp4"}

\* Most packets one connection filters in a run.
MaxFiltered == 2

\* An ACL value: unset (a nil map / nil slice), a map from domain to a list
\* of fingerprints, or the flat list the forwarder reads.
UnsetACL == [kind |-> "unset"]
PerDomainACL(m) == [kind |-> "perDomain", m |-> m]
FlatACL(l) == [kind |-> "flat", l |-> l]

Range(s) == {s[i] : i \in DOMAIN s}

\* The ACL files on disk: a path maps to the result of decoding its bytes as
\* a JSON map from string keys to fingerprint lists: wellFormed tells whether
\* json.Unmarshal succeeds, doc is the decoded map. A path outside the domain
\* is a missing file.
JSONDoc(m) == [wellFormed |-> TRUE, doc |-> m]
Malformed == [wellFormed |-> FALSE, doc |-> <<>>]

ACLFiles ==
    [x \in {"test_data/acl.json", "acl_b.json", "acl_empty.json",
            "acl_paths.json", "acl_bad.json"} |->
        CASE x = "test_data/acl.json" -> JSONDoc(DomainA :> <<"fp1", "fp2">>)
          [] x = "acl_b.json"         -> JSONDoc((DomainA :> <<"fp1">>) @@ (DomainB :> <<"fp3", "fp1">>))
          [] x = "acl_empty.json"     -> JSONDoc(DomainA :> <<>>)
          [] x = "acl_paths.json"     -> JSONDoc("paths" :> <<"fp1", "fp2">>)
          [] x = "acl_bad.json"       -> Malformed]

ACLPaths == DOMAIN ACLFiles \cup {"", "missing.json"}

\* main.go readACL: no path gives (nil, nil); an unreadable or malformed file
\* gives an error; otherwise the list under the key "paths" (nil when the
\* document has no such key).
readACL_EmptyWhenNoFile(pathToFile) ==
    IF pathToFile = "" THEN [acl |-> PerDomainACL(<<>>), err |-> FALSE]
    ELSE IF pathToFile \notin DOMAIN ACLFiles THEN [acl |-> UnsetACL, err |-> TRUE]
    ELSE IF ~ACLFiles[pathToFile].wellFormed THEN [acl |-> UnsetACL, err |-> TRUE]
    ELSE IF "paths" \in DOMAIN ACLFiles[pathToFile].doc
         THEN [acl |-> FlatACL(ACLFiles[pathToFile].doc["paths"]), err |-> FALSE]
         ELSE [acl |-> UnsetACL, err |-> FALSE]

readACL(pathToFile) ==
    IF pathToFile = "" THEN [acl |-> UnsetACL, err |-> FALSE]
    ELSE IF pathToFile \notin DOMAIN ACLFiles THEN [acl |-> UnsetACL, err |-> TRUE]
    ELSE IF ~ACLFiles[pathToFile].wellFormed THEN [acl |-> UnsetACL, err |-> TRUE]
    ELSE IF "paths" \in DOMAIN ACLFiles[pathToFile].doc
         THEN [acl |-> FlatACL(ACLFiles[pathToFile].doc["paths"]), err |-> FALSE]
         ELSE [acl |-> UnsetACL, err |-> FALSE]

\* raw_test.go readACL: panics without a path, on a missing file and on a
\* malformed document; otherwise the whole document, keyed by domain.
testReadACL_DropsLast(pathToFile) ==
    IF pathToFile = "" \/ pathToFile \notin DOMAIN ACLFiles THEN [acl |-> UnsetACL, err |-> TRUE]
    ELSE IF ~ACLFiles[pathToFile].wellFormed THEN [acl |-> UnsetACL, err |-> TRUE]
    ELSE [acl |-> PerDomainACL([d \in DOMAIN ACLFiles[pathToFile].doc |->
                      SubSeq(ACLFiles[pathToFile].doc[d], 1, Len(ACLFiles[pathToFile].doc[d]) - 1)]),
          err |-> FALSE]

testReadACL(pathToFile) ==
    IF pathToFile = "" \/ pathToFile \notin DOMAIN ACLFiles THEN [acl |-> UnsetACL, err |-> TRUE]
    ELSE IF ~ACLFiles[pathToFile].wellFormed THEN [acl |-> UnsetACL, err |-> TRUE]
    ELSE [acl |-> PerDomainACL(ACLFiles[pathToFile].doc), err |-> FALSE]

\* FilterPacket(pkt, fprint): accept when the ACL is unset; with an ACL,
\* accept iff the source domain has an entry that lists the fingerprint.
FilterPacket(acl, ia, fprint) ==
    IF acl.kind = "unset" THEN TRUE
    ELSE IF ia \in DOMAIN acl.m THEN fprint \in Range(acl.m[ia])
    ELSE FALSE

NoPkt == [ia |-> "none", fprint |-> "none"]

InitACL ==
    /\ aclPhase = "init"
    /\ aclSetup = "none"
    /\ aclSource = ""
    /\ allowedPaths = UnsetACL
    /\ lastPkt = NoPkt
    /\ lastVerdict = FALSE
    /\ nFiltered = 0

\* raw_test.go setupConn: baseUDPConn{allowedPaths: readACL(file)}.
setupConn(file) ==
    /\ aclPhase = "init"
    /\ aclSetup' = "test"
    /\ aclSource' = file
    /\ allowedPaths' = testReadACL(file).acl
    /\ aclPhase' = IF testReadACL(file).err THEN "exited" ELSE "serving"
    /\ UNCHANGED <<lastPkt, lastVerdict, nFiltered, notACL>>

\* main.go main: acl, err := readACL(*pathToFile); exit(2) on error, else
\* forwardTLS(addr, acl), whose listener holds the ACL.
main(pathToFile) ==
    /\ aclPhase = "init"
    /\ aclSetup' = "forwarder"
    /\ aclSource' = pathToFile
    /\ allowedPaths' = readACL(pathToFile).acl
    /\ aclPhase' = IF readACL(pathToFile).err THEN "exited" ELSE "serving"
    /\ UNCHANGED <<lastPkt, lastVerdict, nFiltered, notACL>>

\* An inbound packet from domain ia that travelled the path with fingerprint
\* fprint is handed to FilterPacket. (A flat list is the forwarder's listener
\* argument; the per-packet filter is defined on the unset and the
\* per-domain ACL.)
Receive(ia, fprint) ==
    /\ aclPhase = "serving"
    /\ allowedPaths.kind \in {"unset", "perDomain"}
    /\ nFiltered < MaxFiltered
    /\ lastPkt' = [ia |-> ia, fprint |-> fprint]
    /\ lastVerdict' = FilterPacket(allowedPaths, ia, fprint)
    /\ nFiltered' = nFiltered + 1
    /\ UNCHANGED <<aclPhase, aclSetup, aclSource, allowedPaths, notACL>>

NextACL ==
    \/ \E file \in ACLPaths : setupConn(file)
    \/ \E pathToFile \in ACLPaths : main(pathToFile)
    \/ \E ia \in Domains, fprint \in Fingerprints : Receive(ia, fprint)


\* C1: with the ACL file {DomainA: [fp1, fp2]} loaded into the connection,
\* FilterPacket accepts exactly the packets from DomainA whose fingerprint is
\* fp1 or fp2: any other fingerprint from DomainA is dropped, and every
\* packet from a domain without an entry is dropped, whatever its fingerprint.
C1_ACLEnforcement ==
    (aclPhase = "serving" /\ aclSetup = "test" /\ aclSource = "test_data/acl.json"
       /\ lastPkt # NoPkt)
    => /\ (lastPkt.ia = DomainA /\ lastPkt.fprint \in {"fp1", "fp2"}) => lastVerdict = TRUE
       /\ (lastPkt.ia = DomainA /\ lastPkt.fprint \notin {"fp1", "fp2"}) => lastVerdict = FALSE
       /\ (lastPkt.ia # DomainA) => lastVerdict = FALSE

C1_Witness ==
    /\ aclPhase = "serving" /\ aclSetup = "test" /\ aclSource = "test_data/acl.json"
    /\ lastPkt = [ia |-> DomainA, fprint |-> "fp2"]
    /\ lastVerdict = TRUE
    /\ nFiltered = 2

\* C2: when the forwarder is started without an ACL file path, the loader
\* returns an unset ACL and no error, and FilterPacket accepts every packet,
\* from every domain and with every fingerprint.
C2_DefaultAllow ==
    (aclSetup = "forwarder" /\ aclSource = "")
    => /\ aclPhase = "serving"
       /\ lastPkt # NoPkt => lastVerdict = TRUE

C2_Witness ==
    /\ aclSetup = "forwarder" /\ aclSource = "" /\ aclPhase = "serving"
    /\ lastPkt = [ia |-> DomainC, fprint |-> "fp4"]
    /\ lastVerdict = TRUE

(***************************************************************************)
(*              Address mangling, URL parsing, dial and resolve            *)
(*                                                                         *)
(* Text is a sequence of tokens. The separators that decide how an address *)
(* is split ("[", "]", ",", ":", "@", "/", "?") are tokens of their own, so *)
(* the colons inside a domain identifier and inside an IPv6 literal are     *)
(* the same token as the colon in front of a port.                          *)
(***************************************************************************)

IA110 == <<"1-ff00", ":", "0", ":", "110">>
IA1 == <<"1-ff00", ":", "0", ":", "1">>
IPv6Loopback == <<":", ":", "1">>

IPv4Literals == {"127.0.0.1", "192.0.2.1"}
NumTokens == {"0", "1", "80", "110", "443"}
HexTokens == NumTokens \cup {"ff00"}
IsdAsTokens == {"1-ff00"}

NoText == <<"<none>">>

\* strings.Index / strings.LastIndex / strings.Count for one token; 0: absent.
RECURSIVE IndexFrom(_, _, _)
IndexFrom(s, t, i) ==
    IF i > Len(s) THEN 0 ELSE IF s[i] = t THEN i ELSE IndexFrom(s, t, i + 1)

Index(s, t) == IndexFrom(s, t, 1)

RECURSIVE LastIndexFrom(_, _, _)
LastIndexFrom(s, t, i) ==
    IF i < 1 THEN 0 ELSE IF s[i] = t THEN i ELSE LastIndexFrom(s, t, i - 1)

LastIndex(s, t) == LastIndexFrom(s, t, Len(s))

Count(s, t) == Cardinality({i \in DOMAIN s : s[i] = t})

From(s, i) == SubSeq(s, i, Len(s))

\* The test tables' host text forms (TestMangleSCIONAddrURL, TestRoundTripper).
TestHostPorts ==
    { <<"foo">>,
      <<"foo", ":", "80">>,
      IA110 \o <<",", "127.0.0.1">>,
      IA110 \o <<",", "127.0.0.1", ":", "80">>,
      IA110 \o <<",">> \o IPv6Loopback,
      IA110 \o <<",", "[">> \o IPv6Loopback \o <<"]">>,
      IA110 \o <<",", "[">> \o IPv6Loopback \o <<"]", ":", "80">>,
      <<"host">>,
      <<"host", ":", "80">> }

\* hostURLPatterns: the text before and after the %s of each pattern.
URLPrefixes == { <<"https://">>, <<"https://", "user", "@">> }
URLTails == { <<>>, <<"/", "hello">>, <<"?", "boo=bla">>, <<"/", "hello", "?", "boo=bla">> }

hostURLPatterns == { [prefix |-> p, tail |-> t] : p \in URLPrefixes, t \in URLTails }

\* ---- the address library

IsIA(s) ==
    /\ Len(s) = 5
    /\ s[1] \in IsdAsTokens /\ s[2] = ":" /\ s[3] \in HexTokens
    /\ s[4] = ":" /\ s[5] \in HexTokens

IsIPv4(s) == Len(s) = 1 /\ s[1] \in IPv4Literals

IsIPv6(s) ==
    /\ Len(s) >= 3
    /\ Count(s, ":") >= 2
    /\ \A i \in DOMAIN s : s[i] = ":" \/ s[i] \in HexTokens

IsIP(s) == IsIPv4(s) \/ IsIPv6(s)

IsPort(s) == Len(s) = 1 /\ s[1] \in NumTokens

NoAddr == [ok |-> FALSE, ia |-> <<>>, ip |-> <<>>, port |-> <<>>]
Addr(ia, ip, port) ==
    IF IsIA(ia) /\ IsIP(ip) /\ (port = <<>> \/ IsPort(port))
    THEN [ok |-> TRUE, ia |-> ia, ip |-> ip, port |-> IF port = <<"0">> THEN <<>> ELSE port]
    ELSE NoAddr

\* snet.ParseUDPAddr: "ia,host" with host one of ip, [ip], ip4:port, [ip]:port.
\* An unbracketed host with more than one colon is an IPv6 address, no port.
ParseHostPart(ia, h) ==
    IF h = <<>> THEN NoAddr
    ELSE IF h[1] = "["
    THEN LET j == Index(h, "]") IN
         IF j = 0 THEN NoAddr
         ELSE IF j = Len(h) THEN Addr(ia, SubSeq(h, 2, j - 1), <<>>)
         ELSE IF h[j + 1] = ":" THEN Addr(ia, SubSeq(h, 2, j - 1), From(h, j + 2))
         ELSE NoAddr
    ELSE IF Count(h, ":") = 0 THEN Addr(ia, h, <<>>)
    ELSE IF Count(h, ":") = 1
    THEN LET i == Index(h, ":") IN Addr(ia, SubSeq(h, 1, i - 1), From(h, i + 1))
    ELSE Addr(ia, h, <<>>)

ParseUDPAddr(s) ==
    IF Count(s, ",") # 1 THEN NoAddr
    ELSE LET c == Index(s, ",") IN ParseHostPart(SubSeq(s, 1, c - 1), From(s, c + 1))

\* snet.UDPAddr.String: "ia,ip:port", the IP in brackets when it is IPv6.
UDPAddrString(a) ==
    a.ia \o <<",">>
         \o (IF IsIPv4(a.ip) THEN a.ip ELSE <<"[">> \o a.ip \o <<"]">>)
         \o <<":">> \o (IF a.port = <<>> THEN <<"0">> ELSE a.port)

\* net.SplitHostPort: host:port or [host]:port; the port is required.
SplitHostPort(s) ==
    IF s # <<>> /\ s[1] = "["
    THEN LET j == Index(s, "]") IN
         IF j = 0 \/ j = Len(s) \/ s[j + 1] # ":" \/ Count(From(s, j + 2), ":") > 0
         THEN [ok |-> FALSE, host |-> <<>>, port |-> <<>>]
         ELSE [ok |-> TRUE, host |-> SubSeq(s, 2, j - 1), port |-> From(s, j + 2)]
    ELSE IF Count(s, ":") # 1 \/ Count(s, "[") + Count(s, "]") > 0
    THEN [ok |-> FALSE, host |-> <<>>, port |-> <<>>]
    ELSE LET i == Index(s, ":") IN
         [ok |-> TRUE, host |-> SubSeq(s, 1, i - 1), port |-> From(s, i + 1)]

\* net.JoinHostPort: a host with a colon in it is put in brackets.
JoinHostPort(host, port) ==
    IF Count(host, ":") > 0 THEN <<"[">> \o host \o <<"]", ":">> \o port
    ELSE host \o <<":">> \o port

\* ---- net/url and net/http, as far as the host of a URL goes

validOptionalPort(colonPort) ==
    \/ colonPort = <<>>
    \/ colonPort = <<":">>
    \/ Len(colonPort) = 2 /\ colonPort[1] = ":" /\ colonPort[2] \in NumTokens

\* url.URL.Hostname / Port: split at the last colon when a valid port follows
\* it, then strip the brackets of a bracketed host.
urlSplitHostPort(h) ==
    LET colon == LastIndex(h, ":")
        cut == colon # 0 /\ validOptionalPort(From(h, colon))
        host == IF cut THEN SubSeq(h, 1, colon - 1) ELSE h
        port == IF cut THEN From(h, colon + 1) ELSE <<>>
    IN  [host |-> IF host # <<>> /\ host[1] = "[" /\ host[Len(host)] = "]"
                  THEN SubSeq(host, 2, Len(host) - 1) ELSE host,
         port |-> port]

\* url.Parse's parseHost: a bracketed host must close its bracket and be
\* followed by nothing or by a port; any other host that holds a colon must
\* end in a port.
parseHostOK(h) ==
    IF h # <<>> /\ h[1] = "["
    THEN LET i == LastIndex(h, "]") IN i # 0 /\ validOptionalPort(From(h, i + 1))
    ELSE LET i == LastIndex(h, ":") IN i = 0 \/ validOptionalPort(From(h, i))

\* The first "/" or "?" of s at or after position i; Len(s) + 1 when none.
RECURSIVE AuthorityEnd(_, _)
AuthorityEnd(s, i) ==
    IF i > Len(s) THEN i ELSE IF s[i] \in {"/", "?"} THEN i ELSE AuthorityEnd(s, i + 1)

\* url.Parse: scheme, authority up to the first "/" or "?", user-info up to
\* the last "@" of the authority, then the host.
urlParse(u) ==
    LET e == AuthorityEnd(u, 2)
        authority == SubSeq(u, 2, e - 1)
        at == LastIndex(authority, "@")
        host == From(authority, at + 1)
    IN  [ok |-> u # <<>> /\ u[1] = "https://" /\ parseHostOK(host),
         scheme |-> "https",
         user |-> SubSeq(authority, 1, at),
         host |-> host,
         tail |-> From(u, e)]

\* http.Transport's canonicalAddr: the URL's host name with its port, or with
\* the scheme's port when it has none (https: 443).
HTTPSPort == <<"443">>

canonicalAddr(pu) ==
    LET hp == urlSplitHostPort(pu.host) IN
    JoinHostPort(hp.host, IF hp.port = <<>> THEN HTTPSPort ELSE hp.port)

\* ---- pkg/shttp and pkg/appnet

\* mangleSCIONAddr: an address that parses as a SCION address becomes
\* [ia,ip], followed by :port when it has a port; anything else stays.
mangleSCIONAddr(address) ==
    LET a == ParseUDPAddr(address) IN
    IF ~a.ok THEN address
    ELSE <<"[">> \o a.ia \o <<",">> \o a.ip \o <<"]">>
             \o (IF a.port = <<>> THEN <<>> ELSE <<":">> \o a.port)

\* MangleSCIONAddrURL: mangle the host of the URL; scheme, user-info, path
\* and query stay as they are.
MangleSCIONAddrURL(u) ==
    LET hasUser == Len(u) >= 3 /\ u[3] = "@"
        start == IF hasUser THEN 4 ELSE 2
        e == AuthorityEnd(u, start)
    IN  SubSeq(u, 1, start - 1) \o mangleSCIONAddr(SubSeq(u, start, e - 1)) \o From(u, e)

\* UnmangleSCIONAddr: the inverse. With a port, the host inside the brackets
\* is parsed as a SCION address and written back in its text form with the
\* port; a host that is no SCION address is returned as it is. Without a
\* port, the brackets are stripped.
UnmangleSCIONAddr_PlainJoin(address) ==
    LET hp == SplitHostPort(address) IN
    IF ~hp.ok
    THEN IF address # <<>> /\ address[1] = "[" /\ address[Len(address)] = "]"
         THEN SubSeq(address, 2, Len(address) - 1) ELSE address
    ELSE hp.host \o <<":">> \o hp.port

UnmangleSCIONAddr(address) ==
    LET hp == SplitHostPort(address) IN
    IF ~hp.ok
    THEN IF address # <<>> /\ address[1] = "[" /\ address[Len(address)] = "]"
         THEN SubSeq(address, 2, Len(address) - 1) ELSE address
    ELSE LET a == ParseUDPAddr(hp.host) IN
         IF ~a.ok \/ ~IsPort(hp.port) THEN address
         ELSE UDPAddrString([a EXCEPT !.port = hp.port])

\* mockResolver: the table of the test and its lookup. The entry is parsed
\* as a SCION address; only its domain and IP are returned.
ResolverTable == ("host" :> (IA1 \o <<",", "[", "192.0.2.1", "]">>))

Resolve_NeverFound(name) == NoAddr

Resolve(name) ==
    IF name \notin DOMAIN ResolverTable THEN NoAddr
    ELSE [ParseUDPAddr(ResolverTable[name]) EXCEPT !.port = <<>>]

\* appnet.ResolveUDPAddrAt: a SCION address is used as it is; otherwise the
\* host of host:port is looked up with the resolver and the port is kept.
\* The result comes with the names the resolver was asked for.
ResolveUDPAddrAt(address) ==
    LET a == ParseUDPAddr(address) IN
    IF a.ok THEN [addr |-> a, asked |-> <<>>]
    ELSE LET hp == SplitHostPort(address) IN
         IF ~hp.ok \/ Len(hp.host) # 1 \/ ~IsPort(hp.port)
         THEN [addr |-> NoAddr, asked |-> <<>>]
         ELSE LET r == Resolve(hp.host[1]) IN
              [addr |-> IF r.ok THEN [r EXCEPT !.port = hp.port] ELSE NoAddr,
               asked |-> <<hp.host[1]>>]

\* testDial: unmangle the address, resolve it, and print the result.
testDial(addr) ==
    LET r == ResolveUDPAddrAt(UnmangleSCIONAddr(addr)) IN
    [actual |-> IF r.addr.ok THEN UDPAddrString(r.addr) ELSE NoText, asked |-> r.asked]

\* ---- the state machine of one request

InitURL ==
    /\ urlPhase = "idle"
    /\ hostPort = NoText
    /\ rawURL = NoText
    /\ mangledURL = NoText
    /\ parsed = [ok |-> FALSE, scheme |-> "", user |-> <<>>, host |-> <<>>, tail |-> <<>>]
    /\ unmangled = NoText
    /\ dialAddr = NoText
    /\ dialed = NoText
    /\ resolverCalls = <<>>

\* fmt.Sprintf(urlPattern, tc.HostPort)
BuildURL(hp, pattern) ==
    /\ urlPhase = "idle"
    /\ urlPhase' = "built"
    /\ hostPort' = hp
    /\ rawURL' = pattern.prefix \o hp \o pattern.tail
    /\ UNCHANGED <<mangledURL, parsed, unmangled, dialAddr, dialed, resolverCalls, notURL>>

Mangle ==
    /\ urlPhase = "built"
    /\ urlPhase' = "mangled"
    /\ mangledURL' = MangleSCIONAddrURL(rawURL)
    /\ UNCHANGED <<hostPort, rawURL, parsed, unmangled, dialAddr, dialed, resolverCalls, notURL>>

\* u, err := url.Parse(mangled); unmangled := UnmangleSCIONAddr(u.Host)
ParseAndUnmangle ==
    /\ urlPhase = "mangled"
    /\ urlPhase' = "parsed"
    /\ parsed' = urlParse(mangledURL)
    /\ unmangled' = UnmangleSCIONAddr(urlParse(mangledURL).host)
    /\ UNCHANGED <<hostPort, rawURL, mangledURL, dialAddr, dialed, resolverCalls, notURL>>

\* c.Get(mangled): the transport dials the canonical address of the URL with
\* the test's dial function.
RoundTrip ==
    /\ urlPhase = "parsed"
    /\ parsed.ok
    /\ urlPhase' = "done"
    /\ dialAddr' = canonicalAddr(parsed)
    /\ dialed' = testDial(canonicalAddr(parsed)).actual
    /\ resolverCalls' = resolverCalls \o testDial(canonicalAddr(parsed)).asked
    /\ UNCHANGED <<hostPort, rawURL, mangledURL, parsed, unmangled, notURL>>

NextURL ==
    \/ \E hp \in TestHostPorts, pattern \in hostURLPatterns : BuildURL(hp, pattern)
    \/ Mangle
    \/ ParseAndUnmangle
    \/ RoundTrip


(***************************************************************************)
(*                     The echo prober (package ping)                      *)
(***************************************************************************)

\* Capacity of the reply channel: make(chan Reply, 10).
ReplyCap == 10
\* underlay.EndhostPort
EndhostPort == 30041
\* The minimal payload: the 8 bytes of the send time.
MinPayload == 8
\* The error reports' rate limit, in milliseconds.
RateLimitMillis == 500

\* One tick of the clock, in milliseconds, and the last tick of a run.
TickMillis == 250
MaxTime == 1
\* Packets handed to the handler in a run, and how many of them are chosen
\* freely: after MaxVaried packets the network only repeats the last one.
MaxPackets == 11
MaxVaried == 2
\* Failed reads counted, calls of Close, calls of Send in a run.
MaxReadErrs == 1
MaxCloses == 1
MaxSends == 2

\* uint16(x)
Uint16(x) == x % 65536

\* The identifiers rand.Uint64() may give: one below 2^16, one above it.
PingerIds == {7, 65536 + 9}

LocalIA == DomainA
Paths == {"pathA", "pathB"}
EmptyPath == "empty"

\* ---- SCMP payloads, packets, replies
EchoReply(ident, seq, payload) ==
    [type |-> "SCMPEchoReply", Identifier |-> ident, SeqNumber |-> seq, Payload |-> payload]
ExternalInterfaceDown(ia, ifid) ==
    [type |-> "SCMPExternalInterfaceDown", IA |-> ia, Interface |-> ifid]
InternalConnectivityDown(ia, ingress, egress) ==
    [type |-> "SCMPInternalConnectivityDown", IA |-> ia, Ingress |-> ingress, Egress |-> egress]
DestinationUnreachable == [type |-> "SCMPDestinationUnreachable"]
NilPayload == [type |-> "nil"]

\* The zero value snet.SCMPEchoReply{}.
EmptyEcho == EchoReply(0, 0, <<>>)

Packet(source, path, size, payload) ==
    [Source |-> source, Path |-> path, Size |-> size, Payload |-> payload]

\* The SCMP packets the network delivers to the endpoint.
SCMPPackets ==
    { Packet(DomainB, "pathA", 60, EchoReply(7, 1, <<0, 0, 0, 0, 0, 0, 1, 2>>)),
      Packet(DomainB, "pathB", 64, EchoReply(9, 2, <<0, 0, 0, 0, 0, 0, 1, 2, 0, 0, 0, 0>>)),
      Packet(DomainC, "pathA", 40, ExternalInterfaceDown(DomainC, 5)),
      Packet(DomainB, "pathB", 44, InternalConnectivityDown(DomainB, 1, 2)),
      Packet(DomainC, "pathB", 48, DestinationUnreachable) }

NoError == [kind |-> "nil"]
ExternalInterfaceDownError(s, path) ==
    [kind |-> "ExternalInterfaceDownError", IA |-> s.IA, Interface |-> s.Interface,
     Path |-> path]
InternalConnectivityDownError(s, path) ==
    [kind |-> "InternalConnectivityDownError", IA |-> s.IA, Ingress |-> s.Ingress,
     Egress |-> s.Egress, Path |-> path]
PlainError(msg) == [kind |-> msg]
WrongIDError(expected, actual) ==
    [kind |-> "wrong SCMP ID", expected |-> expected, actual |-> actual]

NoReply == [Received |-> -1, Source |-> "none", Path |-> "none", Size |-> 0,
            Reply |-> EmptyEcho, Error |-> NoError]

\* scmpHandler.handle: classify the payload of the packet.
handle_NoIdentifierCheck(pkt, hid) ==
    CASE pkt.Payload.type = "nil" ->
           [echo |-> EmptyEcho, err |-> PlainError("no v2 payload found")]
      [] pkt.Payload.type = "SCMPEchoReply" ->
           [echo |-> pkt.Payload, err |-> NoError]
      [] pkt.Payload.type = "SCMPExternalInterfaceDown" ->
           [echo |-> EmptyEcho, err |-> ExternalInterfaceDownError(pkt.Payload, pkt.Path)]
      [] pkt.Payload.type = "SCMPInternalConnectivityDown" ->
           [echo |-> EmptyEcho, err |-> InternalConnectivityDownError(pkt.Payload, pkt.Path)]
      [] OTHER ->
           [echo |-> EmptyEcho, err |-> PlainError("not SCMPEchoReply")]

handle_DownErrorWithoutPath(pkt, hid) ==
    CASE pkt.Payload.type = "nil" ->
           [echo |-> EmptyEcho, err |-> PlainError("no v2 payload found")]
      [] pkt.Payload.type = "SCMPEchoReply" ->
           IF pkt.Payload.Identifier # hid
           THEN [echo |-> EmptyEcho, err |-> WrongIDError(hid, pkt.Payload.Identifier)]
           ELSE [echo |-> pkt.Payload, err |-> NoError]
      [] pkt.Payload.type = "SCMPExternalInterfaceDown" ->
           [echo |-> EmptyEcho, err |-> ExternalInterfaceDownError(pkt.Payload, EmptyPath)]
      [] pkt.Payload.type = "SCMPInternalConnectivityDown" ->
           [echo |-> EmptyEcho, err |-> InternalConnectivityDownError(pkt.Payload, EmptyPath)]
      [] OTHER ->
           [echo |-> EmptyEcho, err |-> PlainError("not SCMPEchoReply")]

handle(pkt, hid) ==
    CASE pkt.Payload.type = "nil" ->
           [echo |-> EmptyEcho, err |-> PlainError("no v2 payload found")]
      [] pkt.Payload.type = "SCMPEchoReply" ->
           IF pkt.Payload.Identifier # hid
           THEN [echo |-> EmptyEcho, err |-> WrongIDError(hid, pkt.Payload.Identifier)]
           ELSE [echo |-> pkt.Payload, err |-> NoError]
      [] pkt.Payload.type = "SCMPExternalInterfaceDown" ->
           [echo |-> EmptyEcho, err |-> ExternalInterfaceDownError(pkt.Payload, pkt.Path)]
      [] pkt.Payload.type = "SCMPInternalConnectivityDown" ->
           [echo |-> EmptyEcho, err |-> InternalConnectivityDownError(pkt.Payload, pkt.Path)]
      [] OTHER ->
           [echo |-> EmptyEcho, err |-> PlainError("not SCMPEchoReply")]

\* The Reply scmpHandler.Handle builds for a packet at time t. The handler
\* NewPinger registers holds uint16(id).
HandleReply_UntruncatedId(pkt, t) ==
    LET r == handle(pkt, id) IN
    [Received |-> t, Source |-> pkt.Source, Path |-> pkt.Path, Size |-> pkt.Size,
     Reply |-> r.echo, Error |-> r.err]

HandleReply(pkt, t) ==
    LET r == handle(pkt, Uint16(id)) IN
    [Received |-> t, Source |-> pkt.Source, Path |-> pkt.Path, Size |-> pkt.Size,
     Reply |-> r.echo, Error |-> r.err]

\* ---- NewPinger
InitPing ==
    /\ id \in PingerIds
    /\ errHandler = FALSE
    /\ closed = FALSE
    /\ closeRet = <<>>
    /\ ctxDone = FALSE
    /\ drainPc = "idle"
    /\ pending = NoReply
    /\ replies = <<>>
    /\ handled = <<>>
    /\ nConsumed = 0
    /\ consumed = <<>>
    /\ readErrs = 0
    /\ last = -1
    /\ hookCalls = <<>>
    /\ now = 0
    /\ pld = [i \in 1..MinPayload |-> 0]
    /\ written = <<>>
    /\ sendRet = <<>>

\* ---- the clock, Close, the context
Tick ==
    /\ now < MaxTime
    /\ now' = now + 1
    /\ UNCHANGED <<id, errHandler, closed, closeRet, varsDrain, varsSend, notPing>>

\* Pinger.Close: p.conn.Close(). Closing a closed endpoint is an error.
Close ==
    /\ Len(closeRet) < MaxCloses
    /\ closed' = TRUE
    /\ closeRet' = Append(closeRet, IF closed THEN "error" ELSE "nil")
    /\ UNCHANGED <<id, errHandler, now, varsDrain, varsSend, notPing>>

\* The caller cancels the context it gave to Drain.
Cancel ==
    /\ ~ctxDone
    /\ ctxDone' = TRUE
    /\ UNCHANGED <<drainPc, pending, replies, handled, nConsumed, consumed, readErrs, last, hookCalls,
                   varsConn, varsSend, notPing>>

\* ---- Drain
\* go p.Drain(ctx)
StartDrain ==
    /\ drainPc = "idle"
    /\ drainPc' = "select"
    /\ UNCHANGED <<ctxDone, pending, replies, handled, nConsumed, consumed, readErrs, last, hookCalls,
                   varsConn, varsSend, notPing>>

\* select { case <-ctx.Done(): return; default: ... ReadFrom ... }
DrainSelect ==
    /\ drainPc = "select"
    /\ drainPc' = IF ctxDone THEN "done" ELSE "read"
    /\ UNCHANGED <<ctxDone, pending, replies, handled, nConsumed, consumed, readErrs, last, hookCalls,
                   varsConn, varsSend, notPing>>

\* Which packet may arrive next: any, until MaxVaried packets were handled,
\* then only a repeat of the last one.
MayArrive(pkt) ==
    /\ Len(handled) < MaxPackets
    /\ Len(handled) >= MaxVaried => pkt = handled[Len(handled)]

\* ReadFrom receives an SCMP packet and hands it to the handler, which builds
\* the Reply and goes on to put it on the channel.
ReadSCMP(pkt) ==
    /\ drainPc = "read"
    /\ ~closed
    /\ MayArrive(pkt)
    /\ handled' = Append(handled, pkt)
    /\ pending' = HandleReply(pkt, now)
    /\ drainPc' = "deliver"
    /\ UNCHANGED <<ctxDone, replies, nConsumed, consumed, readErrs, last, hookCalls,
                   varsConn, varsSend, notPing>>

\* h.replies <- Reply{...}: blocks while the channel is full. Handle returns
\* nil, and ReadFrom goes on reading: it returns only a data packet or an error.
Deliver_DropsWhenFull ==
    /\ drainPc = "deliver"
    /\ replies' = IF Len(replies) < ReplyCap THEN Append(replies, pending) ELSE replies
    /\ pending' = NoReply
    /\ drainPc' = "read"
    /\ UNCHANGED <<ctxDone, handled, nConsumed, consumed, readErrs, last, hookCalls,
                   varsConn, varsSend, notPing>>

Deliver ==
    /\ drainPc = "deliver"
    /\ Len(replies) < ReplyCap
    /\ replies' = Append(replies, pending)
    /\ pending' = NoReply
    /\ drainPc' = "read"
    /\ UNCHANGED <<ctxDone, handled, nConsumed, consumed, readErrs, last, hookCalls,
                   varsConn, varsSend, notPing>>

\* ReadFrom receives a packet that is no SCMP message and returns nil.
ReadData ==
    /\ drainPc = "read"
    /\ ~closed
    /\ drainPc' = "select"
    /\ UNCHANGED <<ctxDone, pending, replies, handled, nConsumed, consumed, readErrs, last, hookCalls,
                   varsConn, varsSend, notPing>>

\* What Drain does with a failed read: report it, at most once per
\* RateLimitMillis and only with an errHandler, and go round the loop again.
AfterReadError_Returns ==
    /\ drainPc' = "done"
    /\ readErrs' = IF readErrs < MaxReadErrs THEN readErrs + 1 ELSE readErrs
    /\ UNCHANGED <<last, hookCalls>>

AfterReadError ==
    /\ drainPc' = "select"
    /\ readErrs' = IF readErrs < MaxReadErrs THEN readErrs + 1 ELSE readErrs
    /\ IF errHandler /\ (last = -1 \/ (now - last) * TickMillis > RateLimitMillis)
       THEN hookCalls' = Append(hookCalls, now) /\ last' = now
       ELSE UNCHANGED <<last, hookCalls>>

\* ReadFrom fails on a packet that does not decode.
ReadGarbage ==
    /\ drainPc = "read"
    /\ ~closed
    /\ readErrs < MaxReadErrs
    /\ AfterReadError
    /\ UNCHANGED <<ctxDone, pending, replies, handled, nConsumed, consumed, varsConn, varsSend, notPing>>

\* ReadFrom fails at once on a closed endpoint.
ReadClosed ==
    /\ drainPc = "read"
    /\ closed
    /\ AfterReadError
    /\ UNCHANGED <<ctxDone, pending, replies, handled, nConsumed, consumed, varsConn, varsSend, notPing>>

\* The consumer receives from Pinger.Replies.
Consume_TakesNewest ==
    /\ replies # <<>>
    /\ replies' = SubSeq(replies, 1, Len(replies) - 1)
    /\ nConsumed' = nConsumed + 1
    /\ consumed' = Append(consumed, replies[Len(replies)])
    /\ UNCHANGED <<ctxDone, drainPc, pending, handled, readErrs, last, hookCalls,
                   varsConn, varsSend, notPing>>

Consume ==
    /\ replies # <<>>
    /\ replies' = Tail(replies)
    /\ nConsumed' = nConsumed + 1
    /\ consumed' = Append(consumed, Head(replies))
    /\ UNCHANGED <<ctxDone, drainPc, pending, handled, readErrs, last, hookCalls,
                   varsConn, varsSend, notPing>>

DrainStep == DrainSelect \/ Deliver \/ ReadClosed

NextPing ==
    \/ Close
    \/ Cancel
    \/ StartDrain
    \/ DrainSelect
    \/ \E pkt \in SCMPPackets : ReadSCMP(pkt)
    \/ Deliver
    \/ ReadData
    \/ ReadGarbage
    \/ ReadClosed
    \/ Consume

\* ---- Send
\* The clock read as time.Now().UnixNano(): the run starts at StartNanos.
StartNanos == 66000
NanosPerMilli == 1000000
UnixNano(t) == StartNanos + t * TickMillis * NanosPerMilli

\* v >> (8 * k)
RECURSIVE ShiftRightBytes(_, _)
ShiftRightBytes(v, k) == IF k = 0 THEN v ELSE ShiftRightBytes(v \div 256, k - 1)

\* binary.BigEndian.PutUint64(b, v): v's 8 bytes, most significant first, over
\* the first 8 bytes of b.
PutUint64(b, v) ==
    [i \in 1..Len(b) |-> IF i <= 8 THEN ShiftRightBytes(v, 8 - i) % 256 ELSE b[i]]

Zeros(n) == [i \in 1..n |-> 0]

\* The remote addresses Send is called with.
NilHop == [IP |-> "nil", Port |-> 0]
BorderRouter == [IP |-> "10.0.0.1", Port |-> 31000]
RemoteHostIP == "192.0.2.7"
LocalHostIP == "192.0.2.1"
Remote(ia, path, hop) == [IA |-> ia, HostIP |-> RemoteHostIP, Path |-> path, NextHop |-> hop]
Remotes ==
    { Remote(LocalIA, EmptyPath, NilHop),
      Remote(LocalIA, EmptyPath, BorderRouter),
      Remote(DomainB, EmptyPath, NilHop),
      Remote(DomainB, "pathA", BorderRouter) }

\* The payload sizes Send is called with: below and above the minimum.
SendSizes == {4, 9}

EchoRequest(ident, seq, payload) ==
    [type |-> "SCMPEchoRequest", Identifier |-> ident, SeqNumber |-> seq, Payload |-> payload]

\* pack: no packet for a remote in another domain without a path.
pack_NoPathCheck(remote, req) ==
    [err |-> "nil",
     pkt |-> [Destination |-> [IA |-> remote.IA, Host |-> remote.HostIP],
              Source |-> [IA |-> LocalIA, Host |-> LocalHostIP],
              Path |-> remote.Path,
              Payload |-> req]]

pack(remote, req) ==
    IF remote.Path = EmptyPath /\ remote.IA # LocalIA
    THEN [err |-> "no path for remote ISD-AS", pkt |-> <<>>]
    ELSE [err |-> "nil",
          pkt |-> [Destination |-> [IA |-> remote.IA, Host |-> remote.HostIP],
                   Source |-> [IA |-> LocalIA, Host |-> LocalHostIP],
                   Path |-> remote.Path,
                   Payload |-> req]]

\* The next hop Send writes to: the remote's, or the remote host at the
\* endhost port when it has none and the remote is in the local domain.
SendNextHop(remote) ==
    IF remote.NextHop = NilHop /\ LocalIA = remote.IA
    THEN [IP |-> remote.HostIP, Port |-> EndhostPort]
    ELSE remote.NextHop

\* One call of Send as the caller sees it. accepted: whether the endpoint
\* would take a write at the time of the call.
SendCall(remote, sequence, size, accepted, ret) ==
    [remote |-> remote, sequence |-> sequence, size |-> size, accepted |-> accepted,
     ret |-> ret]

\* Pinger.Send(ctx, remote, sequence, size). writeOK: whether the endpoint
\* accepts the write; a closed endpoint never does.
Send(remote, sequence, size, writeOK) ==
    LET sz == IF size < MinPayload THEN MinPayload ELSE size
        grown == IF Len(pld) < sz THEN Zeros(sz) ELSE pld
        stamped == PutUint64(grown, UnixNano(now))
        packed == pack(remote, EchoRequest(Uint16(id), sequence, SubSeq(stamped, 1, sz)))
    IN  /\ Len(sendRet) < MaxSends
        /\ pld' = stamped
        /\ IF packed.err # "nil"
           THEN /\ sendRet' = Append(sendRet, SendCall(remote, sequence, size,
                                                       writeOK /\ ~closed, packed.err))
                /\ UNCHANGED written
           ELSE IF closed \/ ~writeOK
           THEN /\ sendRet' = Append(sendRet, SendCall(remote, sequence, size, FALSE,
                                                       "write error"))
                /\ UNCHANGED written
           ELSE /\ sendRet' = Append(sendRet, SendCall(remote, sequence, size, TRUE, "nil"))
                /\ written' = Append(written, [pkt |-> packed.pkt, nextHop |-> SendNextHop(remote),
                                               call |-> Len(sendRet) + 1])
        /\ UNCHANGED <<varsConn, varsDrain, notPing>>

NextSend ==
    \/ Tick
    \/ Close
    \/ \E remote \in Remotes, size \in SendSizes, writeOK \in BOOLEAN :
          Send(remote, Len(sendRet) + 1, size, writeOK)

\* ---- requests and their echoes
\* The echo reply the remote sends for a written request: it mirrors the
\* request's identifier, sequence number and payload, and comes from the
\* request's destination.
Mirror(w) ==
    Packet(w.pkt.Destination.IA, w.pkt.Path, 48 + Len(w.pkt.Payload.Payload),
           EchoReply(w.pkt.Payload.Identifier, w.pkt.Payload.SeqNumber,
                     w.pkt.Payload.Payload))

\* The echo of the k-th written request arrives, once, at the endpoint Drain
\* reads from.
EchoArrives(k) ==
    /\ k \in DOMAIN written
    /\ \A j \in DOMAIN handled : handled[j] # Mirror(written[k])
    /\ ReadSCMP(Mirror(written[k]))

NextEcho ==
    \/ \E remote \in Remotes, size \in SendSizes, writeOK \in BOOLEAN :
          Send(remote, Len(sendRet) + 1, size, writeOK)
    \/ StartDrain
    \/ DrainSelect
    \/ \E k \in 1..MaxSends : EchoArrives(k)
    \/ Deliver
    \/ Consume

(***************************************************************************)
(*                              Reply.RTT                                  *)
(***************************************************************************)

\* time.Microsecond, in nanoseconds.
Microsecond == 1000

\* binary.BigEndian.Uint64(b): the first 8 bytes of b, most significant first.
RECURSIVE Uint64Upto(_, _)
Uint64Upto(b, k) == IF k = 0 THEN 0 ELSE Uint64Upto(b, k - 1) * 256 + b[k]
Uint64(b) == Uint64Upto(b, 8)

\* time.Duration.Round(m): the multiple of m nearest to d, halfway values
\* away from zero (m > 0; the saturation at the ends of int64 is out of range
\* here).
Round_TowardZero(d, m) ==
    IF d < 0 THEN d + ((-d) % m) ELSE d - (d % m)

Round(d, m) ==
    IF d < 0
    THEN LET r == (-d) % m IN
         IF r + r < m THEN d + r ELSE d - m + r
    ELSE LET r == d % m IN
         IF r + r < m THEN d - r ELSE d + m - r

\* Reply.RTT(): r.Received.Sub(time.Unix(0, int64(Uint64(r.Reply.Payload))))
\* rounded to the microsecond. Uint64 panics on fewer than 8 bytes.
RTT(r) ==
    IF Len(r.Reply.Payload) < 8
    THEN "panic"
    ELSE Round(r.Received - Uint64(r.Reply.Payload), Microsecond)

\* The payload Send puts into a request of the given size at time t, on a
\* fresh buffer.
SentPayload(size, t) ==
    LET sz == IF size < MinPayload THEN MinPayload ELSE size
    IN  SubSeq(PutUint64(Zeros(sz), t), 1, sz)

\* Send times, in nanoseconds, and the delays of the reply.
SendTimes == {0, 999, 66000, 16777216 + 255}
Delays == {-1500, -499, 0, 1, 499, 500, 501, 1000, 1499, 1500, 2500, 3000000}

InitRTT ==
    /\ rttPhase = "idle"
    /\ rttSent = 0
    /\ rttDelay = 0
    /\ rttReply = NoReply
    /\ rttResult = 0

\* Send at time t0.
RTTSend(t0) ==
    /\ rttPhase = "idle"
    /\ rttPhase' = "sent"
    /\ rttSent' = t0
    /\ UNCHANGED <<rttDelay, rttReply, rttResult, notRTT>>

\* The remote mirrors the request; the handler receives the echo reply d
\* nanoseconds after the request was stamped.
RTTEcho(d, size) ==
    /\ rttPhase = "sent"
    /\ rttPhase' = "replied"
    /\ rttDelay' = d
    /\ rttReply' = HandleReply(Packet(DomainB, "pathA", 48 + size,
                                      EchoReply(Uint16(id), 1, SentPayload(size, rttSent))),
                               rttSent + d)
    /\ UNCHANGED <<rttSent, rttResult, notRTT>>

\* The caller asks the Reply for its round-trip time.
RTTCall ==
    /\ rttPhase = "replied"
    /\ rttPhase' = "measured"
    /\ rttResult' = RTT(rttReply)
    /\ UNCHANGED <<rttSent, rttDelay, rttReply, notRTT>>

NextRTT ==
    \/ \E t0 \in SendTimes : RTTSend(t0)
    \/ \E d \in Delays, size \in SendSizes : RTTEcho(d, size)
    \/ RTTCall


(***************************************************************************)
(*                    The forwarder (web-forwarder/main.go)                *)
(***************************************************************************)

\* The sessions Accept may return in a run, in this order.
SessionIds == <<"s1", "s2">>
\* The two copies of a forwarded session: "up" is transfer(dstConn,
\* clientConn), client to backend; "down" is transfer(clientConn, dstConn).
Dirs == {"up", "down"}
\* Bytes each side of a session has to send.
StreamLen == 2
\* The most bytes one Read returns here (the buffer holds 1024).
MaxChunk == 1
Stream(s, dir) ==
    [i \in 1..StreamLen |-> (IF dir = "up" THEN 10 ELSE 20) + i]

StatusForwarded == 200
StatusUnavailable == 503

\* One transfer: where it is, the bytes taken from src so far, the chunk in
\* buf[0:nr], the error the last Read returned with it, the bytes written.
IdleCopy == [pc |-> "idle", nread |-> 0, buf |-> <<>>, er |-> "nil", out |-> <<>>]

\* st: "none" (not accepted) | "accepted" (goroutine started) | "stream"
\* (NewSingleStream succeeded) | "nostream" | "rejected" | "relay"
NoSession ==
    [st |-> "none", log |-> <<>>, closedWith |-> 0,
     clientClosed |-> FALSE, dstClosed |-> FALSE,
     up |-> IdleCopy, down |-> IdleCopy]

SrcClosed(sess, dir) == IF dir = "up" THEN sess.clientClosed ELSE sess.dstClosed
DstClosed(sess, dir) == IF dir = "up" THEN sess.dstClosed ELSE sess.clientClosed

\* logForwardTLS(sess.RemoteAddr(), status): one line on standard output.
logForwardTLS(sess, status) == [sess EXCEPT !.log = Append(@, status)]

InitFwd ==
    /\ fwdPc = "start"
    /\ fwdRet = "none"
    /\ sessions = [i \in DOMAIN SessionIds |-> NoSession]

\* netaddr.ParseIPPort(addrStr)
ParseIPPort(ok) ==
    /\ fwdPc = "start"
    /\ fwdPc' = IF ok THEN "listen" ELSE "returned"
    /\ fwdRet' = IF ok THEN fwdRet ELSE "parse error"
    /\ UNCHANGED <<sessions, notFwd>>

\* listener, err := listen(addr, acl), then listener.Addr() is printed before
\* err is looked at. nilListener: whether a failed listen hands back a nil
\* listener, on which Addr() panics.
listen(ok, nilListener) ==
    /\ fwdPc = "listen"
    /\ fwdPc' = IF ok THEN "accepting" ELSE IF nilListener THEN "panicked" ELSE "returned"
    /\ fwdRet' = IF ok \/ nilListener THEN fwdRet ELSE "listen error"
    /\ UNCHANGED <<sessions, notFwd>>

\* sess, err := listener.Accept(ctx); go forwardTLSSession(sess)
Accept(i) ==
    /\ fwdPc = "accepting"
    /\ sessions[i].st = "none"
    /\ \A j \in 1..(i - 1) : sessions[j].st # "none"
    /\ sessions' = [sessions EXCEPT ![i].st = "accepted"]
    /\ UNCHANGED <<fwdPc, fwdRet, notFwd>>

\* Accept returns an error: forwardTLS returns it.
AcceptFails ==
    /\ fwdPc = "accepting"
    /\ fwdPc' = "returned"
    /\ fwdRet' = "accept error"
    /\ UNCHANGED <<sessions, notFwd>>

\* forwardTLSSession: clientConn, err := quicutil.NewSingleStream(sess); on
\* an error the goroutine returns.
NewSingleStream(i, ok) ==
    /\ sessions[i].st = "accepted"
    /\ sessions' = [sessions EXCEPT ![i].st = IF ok THEN "stream" ELSE "nostream"]
    /\ UNCHANGED <<fwdPc, fwdRet, notFwd>>

\* forwardTLSSession: dstConn, err := net.Dial("tcp", "127.0.0.1:443"), the
\* log line, and either the close of the session or the start of the copies.
Dial_FailureStopsLoop(i, ok) ==
    /\ sessions[i].st = "stream"
    /\ sessions' = [sessions EXCEPT ![i] =
         IF ok
         THEN [logForwardTLS(@, StatusForwarded) EXCEPT
                  !.st = "relay", !.up.pc = "read", !.down.pc = "read"]
         ELSE [logForwardTLS(@, StatusUnavailable) EXCEPT
                  !.st = "rejected", !.closedWith = StatusUnavailable]]
    /\ fwdPc' = IF ok THEN fwdPc ELSE "returned"
    /\ fwdRet' = IF ok THEN fwdRet ELSE "dial error"
    /\ UNCHANGED notFwd

Dial(i, ok) ==
    /\ sessions[i].st = "stream"
    /\ sessions' = [sessions EXCEPT ![i] =
         IF ok
         THEN [logForwardTLS(@, StatusForwarded) EXCEPT
                  !.st = "relay", !.up.pc = "read", !.down.pc = "read"]
         ELSE [logForwardTLS(@, StatusUnavailable) EXCEPT
                  !.st = "rejected", !.closedWith = StatusUnavailable]]
    /\ UNCHANGED <<fwdPc, fwdRet, notFwd>>

\* transfer leaves its loop: the deferred src.Close() and dst.Close() run.
Break_ClosesOnlySrc(sess, dir, c) ==
    IF dir = "up"
    THEN [sess EXCEPT ![dir] = [c EXCEPT !.pc = "done"], !.clientClosed = TRUE]
    ELSE [sess EXCEPT ![dir] = [c EXCEPT !.pc = "done"], !.dstClosed = TRUE]

Break(sess, dir, c) ==
    [sess EXCEPT ![dir] = [c EXCEPT !.pc = "done"],
                 !.clientClosed = TRUE, !.dstClosed = TRUE]

\* transfer: nr, er := src.Read(buf) on an open source. The Read returns n
\* bytes, the last ones of the stream with or without its end, or no bytes
\* and an error; with no bytes the error ends the loop.
TransferRead(i, dir, n, er) ==
    LET sess == sessions[i]
        c == sess[dir]
    IN  /\ sess.st = "relay"
        /\ c.pc = "read"
        /\ ~SrcClosed(sess, dir)
        /\ n <= StreamLen - c.nread
        /\ n = 0 => er # "nil"
        /\ n > 0 => er # "error"
        /\ er = "EOF" => c.nread + n = StreamLen
        /\ sessions' = [sessions EXCEPT ![i] =
             IF n > 0
             THEN [sess EXCEPT ![dir] =
                     [c EXCEPT !.pc = "write", !.nread = c.nread + n, !.er = er,
                               !.buf = SubSeq(Stream(i, dir), c.nread + 1, c.nread + n)]]
             ELSE Break(sess, dir, [c EXCEPT !.er = er])]
        /\ UNCHANGED <<fwdPc, fwdRet, notFwd>>

\* transfer: nw, ew := dst.Write(buf[0:nr]) on an open destination. The loop
\* goes on after a full write without error when the Read had none.
TransferWrite(i, dir, nw, ew) ==
    LET sess == sessions[i]
        c == sess[dir]
        wrote == [c EXCEPT !.out = c.out \o SubSeq(c.buf, 1, nw), !.buf = <<>>]
    IN  /\ sess.st = "relay"
        /\ c.pc = "write"
        /\ ~DstClosed(sess, dir)
        /\ nw <= Len(c.buf)
        /\ ew => nw = 0
        /\ sessions' = [sessions EXCEPT ![i] =
             IF ~ew /\ nw = Len(c.buf) /\ c.er = "nil"
             THEN [sess EXCEPT ![dir] = [wrote EXCEPT !.pc = "read"]]
             ELSE Break(sess, dir, wrote)]
        /\ UNCHANGED <<fwdPc, fwdRet, notFwd>>

\* transfer on a closed connection: the Read of a closed source and the
\* Write to a closed destination fail at once, and the loop ends.
TransferOnClosed(i, dir) ==
    LET sess == sessions[i]
        c == sess[dir]
    IN  /\ sess.st = "relay"
        /\ \/ c.pc = "read" /\ SrcClosed(sess, dir)
           \/ c.pc = "write" /\ DstClosed(sess, dir)
        /\ sessions' = [sessions EXCEPT ![i] = Break(sess, dir, [c EXCEPT !.buf = <<>>])]
        /\ UNCHANGED <<fwdPc, fwdRet, notFwd>>

NextFwd ==
    \/ \E ok \in BOOLEAN : ParseIPPort(ok)
    \/ \E ok \in BOOLEAN, nilListener \in BOOLEAN : listen(ok, nilListener)
    \/ \E i \in DOMAIN SessionIds : Accept(i)
    \/ AcceptFails
    \/ \E i \in DOMAIN SessionIds, ok \in BOOLEAN : NewSingleStream(i, ok)
    \/ \E i \in DOMAIN SessionIds, ok \in BOOLEAN : Dial(i, ok)
    \/ \E i \in DOMAIN SessionIds, dir \in Dirs, n \in 0..MaxChunk,
          er \in {"nil", "EOF", "error"} : TransferRead(i, dir, n, er)
    \/ \E i \in DOMAIN SessionIds, dir \in Dirs, nw \in 0..MaxChunk, ew \in BOOLEAN :
          TransferWrite(i, dir, nw, ew)
    \/ \E i \in DOMAIN SessionIds, dir \in Dirs : TransferOnClosed(i, dir)


(***************************************************************************)
(*                 Forwarding paths and their fingerprints                 *)
(***************************************************************************)

\* Calls of Fingerprint in a run.
MaxFpCalls == 3

\* path.HopField, by its interfaces; the zero value make() gives.
HopField(in, eg) == [ConsIngress |-> in, ConsEgress |-> eg]
ZeroHop == HopField(0, 0)
\* path.InfoField, by its segment identifier.
ZeroInfo == 0

\* scion.Decoded
Decoded(segLen, numINF, numHops, hopFields) ==
    [SegLen |-> segLen, NumINF |-> numINF, NumHops |-> numHops,
     InfoFields |-> [i \in 1..numINF |-> ZeroInfo], HopFields |-> hopFields]

\* The paths of the benchmarks: 3 segments and 189 hops, 3 segments and 6
\* hops, 1 segment and 2 hops, all fields zero.
setupPacketLong == Decoded(<<63, 63, 63>>, 3, 189, [i \in 1..189 |-> ZeroHop])
setupPacketThreeSeg == Decoded(<<2, 2, 2>>, 3, 6, [i \in 1..6 |-> ZeroHop])
setupPacketShort == Decoded(<<2, 0, 0>>, 1, 2, [i \in 1..2 |-> ZeroHop])

\* Paths of 2 hops with other hop fields, and 6 hops cut into other segments.
DecodedPaths ==
    { setupPacketLong, setupPacketThreeSeg, setupPacketShort,
      Decoded(<<2, 0, 0>>, 1, 2, <<HopField(0, 1), HopField(2, 0)>>),
      Decoded(<<2, 0, 0>>, 1, 2, <<HopField(0, 2), HopField(1, 0)>>),
      Decoded(<<3, 3, 0>>, 2, 6, [i \in 1..6 |-> ZeroHop]) }

\* The hop-sequence encoding of a path: the segment lengths, the info
\* fields, then the hop fields, each at its fixed width.
EncodeHops(hops) ==
    [k \in 1..(2 * Len(hops)) |->
        IF k % 2 = 1 THEN hops[(k + 1) \div 2].ConsIngress ELSE hops[k \div 2].ConsEgress]

Encode(dec) == dec.SegLen \o dec.InfoFields \o EncodeHops(dec.HopFields)

\* The fingerprint of an encoding: its canonical form.
FingerprintOf_LengthOnly(enc) == <<Len(enc)>>

FingerprintOf(enc) == enc

PathObjects == {"p1", "p2"}
NoPath == [SegLen |-> <<>>, NumINF |-> 0, NumHops |-> 0, InfoFields |-> <<>>,
           HopFields |-> <<>>]
NoFingerprint == <<>>

InitFp ==
    /\ fpPath = [o \in PathObjects |-> NoPath]
    /\ fpCached = [o \in PathObjects |-> NoFingerprint]
    /\ fpCalls = <<>>

\* fp := ForwardingPath{dataplanePath: path}
NewForwardingPath(o, dec) ==
    /\ fpPath[o] = NoPath
    /\ fpPath' = [fpPath EXCEPT ![o] = dec]
    /\ UNCHANGED <<fpCached, fpCalls, notFp>>

\* fp.Fingerprint(): computed on the first call and kept on the path object.
Fingerprint(o) ==
    LET fprint == IF fpCached[o] = NoFingerprint
                  THEN FingerprintOf(Encode(fpPath[o]))
                  ELSE fpCached[o]
    IN  /\ fpPath[o] # NoPath
        /\ Len(fpCalls) < MaxFpCalls
        /\ fpCached' = [fpCached EXCEPT ![o] = fprint]
        /\ fpCalls' = Append(fpCalls, [obj |-> o, fprint |-> fprint])
        /\ UNCHANGED <<fpPath, notFp>>

NextFp ==
    \/ \E o \in PathObjects, dec \in DecodedPaths : NewForwardingPath(o, dec)
    \/ \E o \in PathObjects : Fingerprint(o)


(***************************************************************************)
(*            Send, statement by statement, from two goroutines            *)
(***************************************************************************)

\* The goroutines that call Send on the one Pinger, once each.
Callers == {"a", "b"}
\* The sizes they ask for: below the minimum, and two above it.
RaceSizes == {4, 9, 12}
\* The remote they send to: in the local domain, so that pack succeeds.
RaceRemote == Remote(LocalIA, EmptyPath, NilHop)

\* The locals of one call: the clamped size, the time it took, and the
\* payload slice of its packet, which shares the array of p.pld until
\* another call replaces p.pld and leaves it the old array.
IdleSender ==
    [pc |-> "idle", size |-> 0, t |-> 0, shared |-> FALSE, own |-> <<>>]

InitRace ==
    /\ senders = [c \in Callers |-> IdleSender]
    /\ wire = <<>>

\* Send is called: if size < 8 { size = 8 }
SendEnter(c, size) ==
    /\ senders[c].pc = "idle"
    /\ senders' = [senders EXCEPT ![c].pc = "check",
                                  ![c].size = IF size < MinPayload THEN MinPayload ELSE size]
    /\ UNCHANGED <<pld, wire, now, notRace>>

\* if cap(p.pld) < size
SendCheckCap(c) ==
    /\ senders[c].pc = "check"
    /\ senders' = [senders EXCEPT ![c].pc = IF Len(pld) < senders[c].size
                                            THEN "grow" ELSE "stamp"]
    /\ UNCHANGED <<pld, wire, now, notRace>>

\* p.pld = make([]byte, size): a payload slice that shared the array of
\* p.pld keeps the old array.
SendGrow(c) ==
    /\ senders[c].pc = "grow"
    /\ pld' = Zeros(senders[c].size)
    /\ senders' = [d \in Callers |->
                     IF d = c THEN [senders[d] EXCEPT !.pc = "stamp"]
                     ELSE IF senders[d].shared
                     THEN [senders[d] EXCEPT !.shared = FALSE, !.own = pld]
                     ELSE senders[d]]
    /\ UNCHANGED <<wire, now, notRace>>

\* binary.BigEndian.PutUint64(p.pld[:size], uint64(time.Now().UnixNano())):
\* the slice expression panics when p.pld is shorter than size.
SendStamp(c) ==
    /\ senders[c].pc = "stamp"
    /\ IF Len(pld) < senders[c].size
       THEN /\ senders' = [senders EXCEPT ![c].pc = "panic"]
            /\ UNCHANGED pld
       ELSE /\ pld' = PutUint64(pld, UnixNano(now))
            /\ senders' = [senders EXCEPT ![c].pc = "pack", ![c].t = UnixNano(now)]
    /\ UNCHANGED <<wire, now, notRace>>

\* pack(p.local, remote, snet.SCMPEchoRequest{..., Payload: p.pld[:size]})
SendPack(c) ==
    /\ senders[c].pc = "pack"
    /\ senders' = [senders EXCEPT ![c] =
         IF Len(pld) < @.size THEN [@ EXCEPT !.pc = "panic"]
         ELSE IF pack(RaceRemote, EchoRequest(Uint16(id), 1, <<>>)).err # "nil"
         THEN [@ EXCEPT !.pc = "done"]
         ELSE [@ EXCEPT !.pc = "write", !.shared = TRUE]]
    /\ UNCHANGED <<pld, wire, now, notRace>>

\* p.conn.WriteTo(pkt, nextHop): the payload bytes are read now.
SendWriteTo(c) ==
    LET x == senders[c]
        bytes == IF x.shared THEN SubSeq(pld, 1, x.size) ELSE SubSeq(x.own, 1, x.size)
    IN  /\ x.pc = "write"
        /\ wire' = Append(wire, [caller |-> c, size |-> x.size, t |-> x.t, payload |-> bytes])
        /\ senders' = [senders EXCEPT ![c].pc = "done", ![c].shared = FALSE]
        /\ UNCHANGED <<pld, now, notRace>>

NextRace ==
    \/ Tick
    \/ \E c \in Callers, size \in RaceSizes : SendEnter(c, size)
    \/ \E c \in Callers : SendCheckCap(c)
    \/ \E c \in Callers : SendGrow(c)
    \/ \E c \in Callers : SendStamp(c)
    \/ \E c \in Callers : SendPack(c)
    \/ \E c \in Callers : SendWriteTo(c)


(***************************************************************************)
(*                            Specifications                               *)
(***************************************************************************)

vars == <<varsACL, varsURL, varsPing, varsRTT, varsFwd, varsFp, varsRace>>

Init == InitACL /\ InitURL /\ InitPing /\ InitRTT /\ InitFwd /\ InitFp /\ InitRace

ACLSpec == Init /\ [][NextACL]_vars

URLSpec == Init /\ [][NextURL]_vars

\* One Pinger with Drain running: the network, the consumer, Close and the
\* cancellation of the context are the environment.
Spec == Init /\ [][NextPing]_vars

\* One Pinger whose caller sends probes, while the clock runs.
SendSpec == Init /\ [][NextSend]_vars

\* One probe, its echo and the round-trip time read off the Reply.
RTTSpec == Init /\ [][NextRTT]_vars

\* One Pinger whose caller sends probes while Drain runs and the remotes
\* answer them.
EchoSpec == Init /\ [][NextEcho]_vars

\* The forwarder: the accept loop, the sessions and their copies.
FwdSpec == Init /\ [][NextFwd]_vars

\* A copy that can run does: a Read or a Write on a closed connection returns.
FairFwdSpec ==
    FwdSpec /\ \A i \in DOMAIN SessionIds, dir \in Dirs : WF_vars(TransferOnClosed(i, dir))

\* Path objects built from decoded paths, and the calls of Fingerprint.
FpSpec == Init /\ [][NextFp]_vars

\* Two goroutines call Send on one Pinger while the clock runs.
RaceSpec == Init /\ [][NextRace]_vars

\* The Go scheduler runs a goroutine that can take a step: Drain's own steps
\* (the select, a read on a closed endpoint, a channel send with room) are
\* weakly fair. The arrival of packets, the consumer, Close and Cancel are not.
FairSpec == Spec /\ WF_vars(DrainSelect) /\ WF_vars(Deliver) /\ WF_vars(ReadClosed)

\* FairSpec with a consumer that keeps receiving from Pinger.Replies.
ConsumerSpec == FairSpec /\ WF_vars(Consume)

(***************************************************************************)
(*                     Claims about mangling and dialing                   *)
(***************************************************************************)

\* The mangled host carries a port (the test's net.SplitHostPort(u.Host)).
MangledHasPort == SplitHostPort(parsed.host).ok

C4_DialResolved ==
    (urlPhase = "done" /\ hostPort[1] # "foo") =>
        /\ hostPort = <<"host">> =>
             dialed = IA1 \o <<",", "192.0.2.1", ":", "443">>
        /\ hostPort = <<"host", ":", "80">> =>
             dialed = IA1 \o <<",", "192.0.2.1", ":", "80">>
        /\ hostPort = IA110 \o <<",", "127.0.0.1">> =>
             dialed = IA110 \o <<",", "127.0.0.1", ":", "443">>
        /\ hostPort = IA110 \o <<",", "127.0.0.1", ":", "80">> =>
             dialed = IA110 \o <<",", "127.0.0.1", ":", "80">>
        /\ hostPort \in {IA110 \o <<",">> \o IPv6Loopback,
                         IA110 \o <<",", "[">> \o IPv6Loopback \o <<"]">>} =>
             dialed = IA110 \o <<",", "[">> \o IPv6Loopback \o <<"]", ":", "443">>
        /\ hostPort = IA110 \o <<",", "[">> \o IPv6Loopback \o <<"]", ":", "80">> =>
             dialed = IA110 \o <<",", "[">> \o IPv6Loopback \o <<"]", ":", "80">>
        /\ dialed # NoText
        /\ resolverCalls = IF hostPort[1] = "host" THEN <<"host">> ELSE <<>>

C4_Witness ==
    /\ urlPhase = "done"
    /\ hostPort = <<"host">>
    /\ dialAddr = <<"host", ":", "443">>
    /\ dialed = IA1 \o <<",", "192.0.2.1", ":", "443">>
    /\ resolverCalls = <<"host">>

(***************************************************************************)
(*                        Claims about the Pinger                          *)
(***************************************************************************)

\* The packet the i-th Reply in the channel was built for.
PacketOf(i) == handled[nConsumed + i]

\* An echo reply that carries another prober's identifier.
ForeignEcho(pkt) ==
    pkt.Payload.type = "SCMPEchoReply" /\ pkt.Payload.Identifier # Uint16(id)

OwnEcho(pkt) ==
    pkt.Payload.type = "SCMPEchoReply" /\ pkt.Payload.Identifier = Uint16(id)

C6_DrainReturnsAfterClose ==
    (closed /\ drainPc \in {"select", "read"}) ~> (drainPc = "done")

\* C7: once Drain's context is cancelled, Drain returns, whatever the network
\* and the consumer of the reply channel do.
C7_DrainReturnsAfterCancel ==
    (ctxDone /\ drainPc # "idle") ~> (drainPc = "done")

\* C8: Drain ends only on the cancellation of its context: whatever packets
\* and read errors it has seen, while the context is not cancelled a started
\* Drain is in its loop (at the select, in the read, or delivering a Reply).
C8_DrainEndsOnlyOnCancel ==
    /\ drainPc = "done" => ctxDone
    /\ (drainPc # "idle" /\ ~ctxDone) => drainPc \in {"select", "read", "deliver"}

C8_Witness ==
    /\ ~ctxDone
    /\ drainPc = "read"
    /\ readErrs >= 1
    /\ Len(handled) >= 2
    /\ ForeignEcho(handled[1])
    /\ handled[2].Payload.type = "SCMPDestinationUnreachable"
    /\ pending = NoReply

\* C9: an interface-down or connectivity-down notification is on the reply
\* channel as a failed Reply whose Error is the matching typed error with the
\* notification's domain and interface identifiers and the packet's path, and
\* whose echo-reply field is empty; an echo reply with the Pinger's
\* identifier is there with a nil Error and its payload unchanged.
C9_TypedErrorsAndEchoDelivered ==
    \A i \in DOMAIN replies :
        LET pkt == PacketOf(i)
            r == replies[i]
        IN  /\ pkt.Payload.type = "SCMPExternalInterfaceDown" =>
                 /\ r.Error.kind = "ExternalInterfaceDownError"
                 /\ r.Error.IA = pkt.Payload.IA
                 /\ r.Error.Interface = pkt.Payload.Interface
                 /\ r.Error.Path = pkt.Path
                 /\ r.Reply = EmptyEcho
            /\ pkt.Payload.type = "SCMPInternalConnectivityDown" =>
                 /\ r.Error.kind = "InternalConnectivityDownError"
                 /\ r.Error.IA = pkt.Payload.IA
                 /\ r.Error.Ingress = pkt.Payload.Ingress
                 /\ r.Error.Egress = pkt.Payload.Egress
                 /\ r.Error.Path = pkt.Path
                 /\ r.Reply = EmptyEcho
            /\ OwnEcho(pkt) =>
                 /\ r.Error = NoError
                 /\ r.Reply = pkt.Payload
            /\ r.Source = pkt.Source /\ r.Path = pkt.Path /\ r.Size = pkt.Size

C9_Witness ==
    /\ Len(replies) >= 3
    /\ replies[1].Error.kind = "InternalConnectivityDownError"
    /\ replies[1].Error.Egress = 2
    /\ replies[2].Error = NoError
    /\ replies[2].Reply.Payload # <<>>
    /\ replies[3] = replies[2]

\* The write of the k-th call of Send, if it wrote.
WrittenBy(k) == {i \in DOMAIN written : written[i].call = k}

\* C10: a Send to a remote in another domain with an empty path returns an
\* error and writes nothing; a Send whose write the endpoint does not accept
\* returns an error; a Send that succeeds to a remote in the local domain
\* without a next hop has written its packet to the remote host's IP at the
\* endhost port.
C10_SendErrorsAndFallback ==
    \A k \in DOMAIN sendRet :
        LET c == sendRet[k] IN
        /\ (c.remote.IA # LocalIA /\ c.remote.Path = EmptyPath) =>
              c.ret # "nil" /\ WrittenBy(k) = {}
        /\ ~c.accepted => c.ret # "nil" /\ WrittenBy(k) = {}
        /\ (c.remote.IA = LocalIA /\ c.remote.NextHop = NilHop /\ c.accepted) =>
              /\ c.ret = "nil"
              /\ \E i \in WrittenBy(k) :
                    /\ written[i].nextHop = [IP |-> c.remote.HostIP, Port |-> 30041]
                    /\ written[i].pkt.Destination = [IA |-> c.remote.IA, Host |-> c.remote.HostIP]

C10_Witness ==
    /\ Len(sendRet) = 2
    /\ sendRet[1].remote.IA # LocalIA /\ sendRet[1].remote.Path = EmptyPath
    /\ sendRet[1].accepted /\ sendRet[1].ret = "no path for remote ISD-AS"
    /\ sendRet[2].remote.IA = LocalIA /\ sendRet[2].remote.NextHop = NilHop
    /\ sendRet[2].ret = "nil"
    /\ Len(written) = 1 /\ written[1].nextHop.Port = EndhostPort

(***************************************************************************)
(*                      Claims about the round-trip time                   *)
(***************************************************************************)

Abs(x) == IF x < 0 THEN -x ELSE x

\* C11: for a reply whose payload carries the send time t0 as Send wrote it
\* and that was received at t0 + d, RTT() is d rounded to the microsecond: a
\* whole number of microseconds, at most half a microsecond away from d, and
\* away from zero when d is exactly halfway.
C11_RTTIsRoundedDelay ==
    rttPhase = "measured" =>
        /\ rttReply.Error = NoError
        /\ rttReply.Received = rttSent + rttDelay
        /\ rttResult \in Int
        /\ rttResult % Microsecond = 0
        /\ 2 * Abs(rttResult - rttDelay) <= Microsecond
        /\ 2 * Abs(rttResult - rttDelay) = Microsecond => Abs(rttResult) > Abs(rttDelay)

C11_Witness ==
    /\ rttPhase = "measured"
    /\ rttSent = 16777216 + 255
    /\ rttDelay = 1500
    /\ Len(rttReply.Reply.Payload) = 9
    /\ rttResult = 2000

(***************************************************************************)
(*                       Claims about the forwarder                        *)
(***************************************************************************)

\* The session goroutine has left the setup of forwardTLSSession.
SetUp(x) == x.st \in {"nostream", "rejected", "relay"}

Relayed(x) == x.up.out # <<>> \/ x.down.out # <<>>

\* C12: every session Accept returned has exactly one log line once its
\* goroutine is through the setup: 200 when the backend connection was
\* established, 503 when it was not, and then the session is closed with an
\* error and relays nothing.
C12_OneLogLinePerSession ==
    \A i \in DOMAIN SessionIds :
        LET x == sessions[i] IN
        /\ SetUp(x) => Len(x.log) = 1
        /\ x.st = "relay" => x.log = <<StatusForwarded>>
        /\ x.st = "rejected" =>
             x.log = <<StatusUnavailable>> /\ x.closedWith = StatusUnavailable /\ ~Relayed(x)
        /\ ~SetUp(x) => x.log = <<>> /\ ~Relayed(x)

\* C19: the accept loop ends only in a step that is no session's step, with
\* the error Accept returned as the result of forwardTLS; a step of a
\* session, whatever its outcome, leaves the loop and every other session as
\* they are.
C19_AcceptLoopIndependent ==
    [][ /\ (fwdPc = "accepting" /\ fwdPc' # "accepting") =>
              (fwdPc' = "returned" /\ fwdRet' = "accept error" /\ sessions' = sessions)
        /\ (\E i \in DOMAIN SessionIds : sessions[i].st # "none" /\ sessions'[i] # sessions[i]) =>
              (fwdPc' = fwdPc /\ fwdRet' = fwdRet)
        /\ \A i, j \in DOMAIN SessionIds :
              (i # j /\ sessions'[i] # sessions[i]) => sessions'[j] = sessions[j]
      ]_vars

C19_Witness ==
    /\ fwdPc = "accepting"
    /\ sessions[1].st = "nostream"
    /\ sessions[2].st = "relay"
    /\ sessions[2].up.pc = "done" /\ sessions[2].up.er = "error"
    /\ sessions[2].down.pc = "done"
    /\ sessions[2].down.out # <<>>

\* C20: a copy of a forwarded session has written a prefix of what its source
\* sent, all of what it read whenever it is about to read again; a copy that
\* has ended has closed the client stream and the backend connection; and
\* once one copy of a session has ended, the other one ends too: again and
\* again no session has one copy ended and the other one running.
C20_CopiesEndTogether ==
    /\ [](\A i \in DOMAIN SessionIds, dir \in Dirs :
            LET x == sessions[i]
                c == x[dir]
            IN  /\ c.out = SubSeq(Stream(i, dir), 1, Len(c.out))
                /\ c.pc = "write" => c.out \o c.buf = SubSeq(Stream(i, dir), 1, c.nread)
                /\ c.pc = "read" => Len(c.out) = c.nread
                /\ c.pc = "done" => x.clientClosed /\ x.dstClosed)
    /\ []<>(\A i \in DOMAIN SessionIds :
               (sessions[i].up.pc = "done") <=> (sessions[i].down.pc = "done"))

C20_Witness ==
    /\ sessions[1].st = "relay"
    /\ sessions[1].up.pc = "done" /\ sessions[1].up.er = "EOF"
    /\ sessions[1].up.out = <<11, 12>>
    /\ sessions[1].down.pc = "done"
    /\ sessions[1].down.out = <<21>>
    /\ sessions[1].clientClosed /\ sessions[1].dstClosed

\* C21: forwardTLS never panics; when the listen address does not parse or
\* the listener cannot be created it has returned that error, and no session
\* was accepted.
C21_ListenFailureReturned ==
    /\ fwdPc # "panicked"
    /\ fwdRet \in {"parse error", "listen error"} =>
          /\ fwdPc = "returned"
          /\ \A i \in DOMAIN SessionIds : sessions[i] = NoSession

(***************************************************************************)
(*                     Claims about loading the ACL file                   *)
(***************************************************************************)

\* The file does not decode as JSON.
MalformedFile(f) == f \in DOMAIN ACLFiles /\ ~ACLFiles[f].wellFormed

\* The document has a field the forwarder does not know: a key other than
\* "paths".
UnknownFields(f) ==
    f \in DOMAIN ACLFiles /\ ACLFiles[f].wellFormed /\ ~(DOMAIN ACLFiles[f].doc \subseteq {"paths"})

\* C13: when the forwarder is started with an ACL file that is malformed JSON
\* or has unknown fields, loading fails and the process exits: it never
\* serves, and no packet is ever filtered.
C13_BadACLRefusesToStart ==
    (aclSetup = "forwarder" /\ (MalformedFile(aclSource) \/ UnknownFields(aclSource)))
    => (aclPhase = "exited" /\ nFiltered = 0)

(***************************************************************************)
(*                       Claims about fingerprints                         *)
(***************************************************************************)

InHandler == IF drainPc = "deliver" THEN 1 ELSE 0

\* C15: the reply channel never holds more than ReplyCap Replies; every
\* packet handed to the handler has exactly one Reply, which is with the
\* consumer, on the channel, or in the handler waiting for room; and with a
\* consumer that keeps receiving, the Reply of every packet reaches it: again
\* and again the consumer has received one Reply for each packet handled.
C15_BoundedChannelNoDrop ==
    /\ [](/\ Len(replies) <= ReplyCap
          /\ Len(handled) = nConsumed + Len(replies) + InHandler
          /\ (drainPc = "deliver") <=> (pending # NoReply))
    /\ []<>(nConsumed = Len(handled))

C15_Witness ==
    /\ Len(replies) = ReplyCap
    /\ drainPc = "deliver"
    /\ Len(handled) = ReplyCap + 1
    /\ nConsumed = 0

\* C16: the consumer receives the Replies in the order in which their
\* packets were read off the endpoint: the k-th Reply it receives is the one
\* built for the k-th packet read, and the Replies waiting on the channel are
\* those of the packets read after it, in that order.
C16_RepliesInArrivalOrder ==
    /\ nConsumed = Len(consumed)
    /\ \A k \in DOMAIN consumed : consumed[k] = HandleReply(handled[k], consumed[k].Received)
    /\ \A i \in DOMAIN replies : replies[i] = HandleReply(PacketOf(i), replies[i].Received)

C16_Witness ==
    /\ Len(consumed) = 2
    /\ consumed[1].Error.kind = "InternalConnectivityDownError"
    /\ consumed[2].Error = NoError /\ consumed[2].Reply.SeqNumber \in {1, 2}
    /\ Len(replies) >= 2
    /\ handled[1] # handled[2]

(***************************************************************************)
(*                      Claims about the error hook                        *)
(***************************************************************************)

\* C17: more than RateLimitMillis lie between any two consecutive
\* invocations of the error hook; the first read error is reported; and a
\* read error never stops the loop.
C17_HookRateLimited ==
    /\ \A k \in 1..(Len(hookCalls) - 1) :
          (hookCalls[k + 1] - hookCalls[k]) * TickMillis > RateLimitMillis
    /\ readErrs >= 1 => Len(hookCalls) >= 1
    /\ (readErrs >= 1 /\ ~ctxDone) => drainPc \in {"select", "read", "deliver"}

(***************************************************************************)
(*                   Claims about overlapping calls of Send                *)
(***************************************************************************)

\* C18: every packet written by a call of Send carries a payload of the
\* call's own size (at least MinPayload) that begins with the time taken by
\* that same call, and no call fails on the buffer, whatever other calls of
\* Send on the same Pinger run at the same time.
C18_OverlappingSendsDoNotInterfere ==
    /\ \A k \in DOMAIN wire :
          /\ Len(wire[k].payload) = wire[k].size
          /\ SubSeq(wire[k].payload, 1, 8) = SubSeq(PutUint64(Zeros(8), wire[k].t), 1, 8)
    /\ \A c \in Callers : senders[c].pc # "panic"

(***************************************************************************)
(*                 Claims about the echo identifier                        *)
(***************************************************************************)

\* The Replies the handler has built so far, in the order of the packets
\* handed to it: those received, those in the channel, the one on its way.
RepliesBuilt ==
    consumed \o replies \o (IF drainPc = "deliver" THEN <<pending>> ELSE <<>>)

\* C22: every request Send writes carries the Pinger's id modulo 2^16 as its
\* identifier, and every echo reply that mirrors the identifier of one of
\* these requests is delivered with Error nil, as the echo reply it was.
C22_EchoIdentifierAccepted ==
    /\ \A k \in DOMAIN written : written[k].pkt.Payload.Identifier = id % 65536
    /\ Len(RepliesBuilt) = Len(handled)
    /\ \A j \in DOMAIN handled :
          (/\ handled[j].Payload.type = "SCMPEchoReply"
           /\ \E k \in DOMAIN written :
                 handled[j].Payload.Identifier = written[k].pkt.Payload.Identifier)
          => /\ RepliesBuilt[j].Error = NoError
             /\ RepliesBuilt[j].Reply = handled[j].Payload
             /\ RepliesBuilt[j].Reply.Identifier = id % 65536

C22_Witness ==
    /\ id >= 65536
    /\ Len(written) = 2
    /\ Len(consumed) = 2
    /\ consumed[1].Reply.SeqNumber = 2
    /\ consumed[1].Reply.Identifier = 9
    /\ consumed[1].Error = NoError
    /\ consumed[2].Error = NoError

=============================================================================
